---- MODULE Spec2Model ----
(***************************************************************************)
(* Model of modbot's Twitch credential acquisition (src/src/token.rs):     *)
(* the credential table `access`, get_token, update_credentials, the       *)
(* callback server (handle_request, auth_callback) and start_server with   *)
(* its mpsc::channel(1) handoff.                                           *)
(*                                                                         *)
(* Time is counted in whole seconds of the UTC clock (Utc::now()).         *)
(* Callers are tasks that call get_token() or start_server(); requests are *)
(* HTTP requests handled by the hyper server, each in its own task, so the *)
(* steps of different requests and callers interleave freely.              *)
(***************************************************************************)
EXTENDS Integers, Sequences, FiniteSets, TLC

\* ------------------------------------------------------------------ bounds
NumCallers == 2     \* tasks that may call get_token / start_server
NumReqs == 2        \* HTTP requests sent to the callback server
MaxTime == 1        \* the clock runs over 0..MaxTime

Callers == 1..NumCallers
Reqs == 1..NumReqs
None == "None"
AccessTokens == {"tok" \o ToString(r) : r \in Reqs}
RefreshTokens == {"ref1"}
ExpiresInValues == {1}   \* the provider's expires_in, in seconds
Methods == {"GET", "POST"}
Paths == {"/auth/callback", "/auth/twitch", "/"}

\* ------------------------------------------------------------------ state
VARIABLES
    now,        \* Utc::now(), in seconds
    store,      \* table `access`: a sequence of rows
    listening,  \* the server bound to 127.0.0.1:3000 is running
    rxOwner,    \* the caller holding the channel's receiver (0: none yet)
    rxAlive,    \* the receiver has not been dropped
    chan,       \* the channel's buffer (capacity 1)
    cpc,        \* caller -> "idle" | "waiting" | "received" | "returned" | "panicked"
    cop,        \* caller -> the function called: "get_token" | "start_server" | None
    credentials,\* caller -> what get_token's read returned
    result,     \* caller -> the token returned to it
    rpc,        \* request -> position of its handler
    route,      \* request -> RouteKind of its method and path
    outcome,    \* request -> ResponseKind of the provider's answer to its exchange
    token,      \* request -> auth_callback's local `token` while the handler runs
    not_exists, \* request -> update_credentials' local `not_exists`
    wrote,      \* request -> update_credentials has written the table
    pushed,     \* request -> tx.send delivered its token into the channel
    sendClosed, \* request -> tx.send was tried with the receiver dropped
    resp        \* request -> HTTP status answered (0: none)

vars == <<now, store, listening, rxOwner, rxAlive, chan, cpc, cop, credentials,
          result, rpc, route, outcome, token, not_exists, wrote, pushed,
          sendClosed, resp>>

callerVars == <<cpc, cop, credentials, result>>
chanVars == <<rxOwner, rxAlive, chan>>
reqVars == <<rpc, route, outcome, token, not_exists, wrote, pushed,
             sendClosed, resp>>

\* ------------------------------------------------------------ pure parts
\* lazy_static SCOPES
SCOPES == <<"chat:read", "chat:edit", "channel:moderate",
            "channel:manage:moderators", "moderator:manage:banned_users",
            "user:read:email">>

\* struct TwitchToken, as both get_token and auth_callback construct it
TwitchToken(at, exp, rt) ==
    [access_token |-> at, token_type |-> "Bearer", expires_at |-> exp,
     refresh_token |-> rt, scope |-> SCOPES]

NoToken == [access_token |-> None, token_type |-> None, expires_at |-> 0,
            refresh_token |-> None, scope |-> <<>>]

\* A row of table `access` as update_credentials writes it
AccessRow(i, tok) ==
    [id |-> i, access_token |-> tok.access_token,
     expires_at |-> tok.expires_at, refresh_token |-> tok.refresh_token]

NoRow == AccessRow(0, NoToken)

\* access.first::<Access>(connection): the first row, or Err(NotFound) on an
\* empty table, or another Err when the storage layer fails.
first(rows, fault) ==
    IF fault THEN [ok |-> FALSE, err |-> "StorageError", value |-> NoRow]
    ELSE IF rows = <<>> THEN [ok |-> FALSE, err |-> "NotFound", value |-> NoRow]
    ELSE [ok |-> TRUE, err |-> None, value |-> rows[1]]

\* A slip get_token could make: taking the Ok arm only for a row that has
\* already expired.
get_token_cached_expired_only(creds) ==
    creds.ok /\ creds.value.expires_at <= now

\* get_token's match on `credentials`: the Ok arm returns the stored row as a
\* token (the expiry test is commented out), every Err arm calls start_server.
get_token_cached(creds) == creds.ok

get_token_value(value) ==
    TwitchToken(value.access_token, value.expires_at, value.refresh_token)

\* TwitchToken::expires_in at clock t (in seconds): the difference is taken in
\* milliseconds, num_milliseconds(), and handed to Duration::new(secs, nanos)
\* as its seconds.
expires_in(tok, t) ==
    IF tok.expires_at > t
    THEN [some |-> TRUE, secs |-> (tok.expires_at - t) * 1000, nanos |-> 0]
    ELSE [some |-> FALSE, secs |-> 0, nanos |-> 0]

\* update_credentials' existence test: filter(id.eq(1)).limit(1).load().is_empty()
not_exists_of(rows) == \A i \in 1..Len(rows) : rows[i].id # 1

\* Table `access` (crate::schema::access): `id` is its primary key, the fixed
\* identity slot, so the table takes no second row with an id it holds.
primary_key_free(rows, i) == \A k \in 1..Len(rows) : rows[k].id # i

\* diesel::insert_into(access).values((id.eq(1), ...)).execute(connection)
insert_into(rows, row) ==
    IF primary_key_free(rows, row.id)
    THEN [ok |-> TRUE, rows |-> Append(rows, row)]
    ELSE [ok |-> FALSE, rows |-> rows]

\* A slip the update branch could make: adding the new credential as one more
\* row instead of overwriting the row of slot 1.
update_set_appending(rows, tok) ==
    Append(rows, AccessRow(Len(rows) + 1, tok))

\* A slip the update branch could make: overwriting the access token alone.
update_set_access_token_only(rows, tok) ==
    [i \in 1..Len(rows) |->
        IF rows[i].id = 1
        THEN [rows[i] EXCEPT !.access_token = tok.access_token]
        ELSE rows[i]]

\* diesel::update(access.filter(id.eq(1))).set((access_token, expires_at,
\* refresh_token))
update_set(rows, tok) ==
    [i \in 1..Len(rows) |->
        IF rows[i].id = 1 THEN AccessRow(1, tok) ELSE rows[i]]

\* The write half of update_credentials: insert when the test saw no row,
\* update otherwise.
update_credentials_write(rows, absent, tok) ==
    IF absent
    THEN insert_into(rows, AccessRow(1, tok))
    ELSE [ok |-> TRUE, rows |-> update_set(rows, tok)]

\* The provider's answers to POST https://id.twitch.tv/oauth2/token: the
\* request could not be sent, a non-2xx status, a 2xx status whose body is not
\* JSON, or a 2xx status with a JSON body holding the fields in `present`.
JsonFields == {"access_token", "refresh_token", "expires_in"}

ProviderResponses ==
    [sent : {FALSE}, status : {0}, json : {FALSE}, present : {{}},
     access_token : AccessTokens, refresh_token : RefreshTokens,
     expires_in : ExpiresInValues]
    \cup
    [sent : {TRUE}, status : {400}, json : {TRUE}, present : {{}},
     access_token : AccessTokens, refresh_token : RefreshTokens,
     expires_in : ExpiresInValues]
    \cup
    [sent : {TRUE}, status : {200}, json : {FALSE}, present : {{}},
     access_token : AccessTokens, refresh_token : RefreshTokens,
     expires_in : ExpiresInValues]
    \cup
    [sent : {TRUE}, status : {200}, json : {TRUE}, present : SUBSET JsonFields,
     access_token : AccessTokens, refresh_token : RefreshTokens,
     expires_in : ExpiresInValues]

\* What the provider answered, in the words of the HTTP exchange: the request
\* was not sent, the status is not 2xx, the 2xx body is not JSON, the 2xx body
\* lacks access_token, it has access_token but lacks refresh_token or
\* expires_in, or it carries all three.
ResponseKind(response) ==
    IF ~response.sent THEN "transport"
    ELSE IF response.status \notin 200..299 THEN "non2xx"
    ELSE IF ~response.json THEN "unparsable"
    ELSE IF "access_token" \notin response.present THEN "no_access_token"
    ELSE IF response.present # JsonFields THEN "optional_missing"
    ELSE "complete"

\* A slip the match could make: taking every answered request for a success.
is_success_any_status(response) == response.sent

\* auth_callback's first match arm: Ok(resp) if resp.status().is_success()
is_success(response) ==
    response.sent /\ response.status >= 200 /\ response.status < 300

\* The success arm up to the construction of `token`: resp.json().expect,
\* as_str().expect for access_token and refresh_token, as_i64().unwrap for
\* expires_in. Any of them missing panics the handler's task.
token_fields_present(response) ==
    /\ response.json
    /\ "access_token" \in response.present
    /\ "refresh_token" \in response.present
    /\ "expires_in" \in response.present

token_from_response(response, t) ==
    TwitchToken(response.access_token, t + response.expires_in,
                response.refresh_token)

\* handle_request's match on (method, path)
is_callback_route(method, path) == method = "GET" /\ path = "/auth/callback"

\* The request in the words of the HTTP surface: the callback route, the
\* initiate route GET /auth/<provider>, or anything else.
RouteKind(method, path) ==
    IF method = "GET" /\ path = "/auth/callback" THEN "callback"
    ELSE IF method = "GET" /\ path = "/auth/twitch" THEN "initiate"
    ELSE "other"

\* ---------------------------------------------------------- initial state
NoCredentials == [ok |-> FALSE, err |-> None, value |-> NoRow]

\* The table as an earlier run of the program can have left it: empty, or the
\* single row id = 1 written by update_credentials, expiring at the first or
\* at the last instant of the clock (so that it is met before, at and after
\* its expiry).
InitStores ==
    {<<>>} \cup
    {<<AccessRow(1, TwitchToken("tok0", e, "ref0"))>> : e \in {0, MaxTime}}

Init ==
    /\ now = 0
    /\ store \in InitStores
    /\ listening = FALSE
    /\ rxOwner = 0
    /\ rxAlive = FALSE
    /\ chan = <<>>
    /\ cpc = [c \in Callers |-> "idle"]
    /\ cop = [c \in Callers |-> None]
    /\ credentials = [c \in Callers |-> NoCredentials]
    /\ result = [c \in Callers |-> NoToken]
    /\ rpc = [r \in Reqs |-> "idle"]
    /\ route = [r \in Reqs |-> None]
    /\ outcome = [r \in Reqs |-> None]
    /\ token = [r \in Reqs |-> NoToken]
    /\ not_exists = [r \in Reqs |-> FALSE]
    /\ wrote = [r \in Reqs |-> FALSE]
    /\ pushed = [r \in Reqs |-> FALSE]
    /\ sendClosed = [r \in Reqs |-> FALSE]
    /\ resp = [r \in Reqs |-> 0]

\* ---------------------------------------------------------------- actions
\* Callers are interchangeable, and so are requests: they are numbered in the
\* order in which they start.
InOrder(pc, i) == IF i = 1 THEN TRUE ELSE pc[i - 1] # "idle"

\* The clock advances.
Tick ==
    /\ now < MaxTime
    /\ now' = now + 1
    /\ UNCHANGED <<store, listening, chanVars, callerVars, reqVars>>

\* A slip start_server could make: a listener that shares the port (the
\* address bound with port reuse), so that a second call binds as well and
\* takes the place of the first.
start_server_begin_sharing_port(c) ==
    /\ cpc' = [cpc EXCEPT ![c] = "waiting"]
    /\ listening' = TRUE
    /\ rxOwner' = c
    /\ rxAlive' = TRUE
    /\ chan' = <<>>

\* start_server up to its only suspension point, receiver.recv().await:
\* mpsc::channel(1), Server::bind(&addr) (which panics when the port is
\* taken), tokio::spawn of the server.
start_server_begin(c) ==
    IF listening
    THEN /\ cpc' = [cpc EXCEPT ![c] = "panicked"]
         /\ UNCHANGED <<listening, chanVars>>
    ELSE /\ cpc' = [cpc EXCEPT ![c] = "waiting"]
         /\ listening' = TRUE
         /\ rxOwner' = c
         /\ rxAlive' = TRUE
         /\ chan' = <<>>

\* A caller calls start_server() directly, as main does.
StartServer(c) ==
    /\ cpc[c] = "idle"
    /\ InOrder(cpc, c)
    /\ cop' = [cop EXCEPT ![c] = "start_server"]
    /\ start_server_begin(c)
    /\ UNCHANGED <<now, store, credentials, result, reqVars>>

\* A caller calls get_token(): read the table, return the stored row as a
\* token or fall through to start_server().await.unwrap().
GetToken(c) ==
    /\ cpc[c] = "idle"
    /\ InOrder(cpc, c)
    /\ \E fault \in BOOLEAN :
        LET cred == first(store, fault) IN
        /\ cop' = [cop EXCEPT ![c] = "get_token"]
        /\ credentials' = [credentials EXCEPT ![c] = cred]
        /\ IF get_token_cached(cred)
           THEN /\ result' = [result EXCEPT ![c] = get_token_value(cred.value)]
                /\ cpc' = [cpc EXCEPT ![c] = "returned"]
                /\ UNCHANGED <<listening, chanVars>>
           ELSE /\ start_server_begin(c)
                /\ UNCHANGED result
    /\ UNCHANGED <<now, store, reqVars>>

\* receiver.recv().await yields the buffered token.
Recv(c) ==
    /\ cpc[c] = "waiting"
    /\ rxOwner = c
    /\ chan # <<>>
    /\ result' = [result EXCEPT ![c] = Head(chan)]
    /\ chan' = Tail(chan)
    /\ cpc' = [cpc EXCEPT ![c] = "received"]
    /\ UNCHANGED <<now, store, listening, rxOwner, rxAlive, cop, credentials,
                   reqVars>>

\* start_server returns Ok(token): `receiver` goes out of scope and is
\* dropped, which closes the channel and discards what is buffered. The
\* spawned server keeps running.
Return(c) ==
    /\ cpc[c] = "received"
    /\ cpc' = [cpc EXCEPT ![c] = "returned"]
    /\ rxAlive' = FALSE
    /\ chan' = <<>>
    /\ UNCHANGED <<now, store, listening, rxOwner, cop, credentials, result,
                   reqVars>>

\* update_credentials, first statement: the existence test on a fresh
\* connection. A storage error is returned by `?` and auth_callback's unwrap()
\* panics on it, which drops `token`.
update_credentials_check(r, tok, fault) ==
    IF fault
    THEN /\ rpc' = [rpc EXCEPT ![r] = "panicked"]
         /\ UNCHANGED <<token, not_exists>>
    ELSE /\ rpc' = [rpc EXCEPT ![r] = "update_write"]
         /\ token' = [token EXCEPT ![r] = tok]
         /\ not_exists' = [not_exists EXCEPT ![r] = not_exists_of(store)]

\* auth_callback from the provider's answer on: the success arm builds
\* `token` and calls update_credentials (no suspension point lies between
\* Utc::now() and the existence test), a missing field panics the handler's
\* task, every other answer is the 500 page.
auth_callback_exchange(r, response) ==
    /\ outcome' = [outcome EXCEPT ![r] = ResponseKind(response)]
    /\ IF is_success(response)
       THEN IF token_fields_present(response)
            THEN /\ \E fault \in BOOLEAN :
                      update_credentials_check(
                          r, token_from_response(response, now), fault)
                 /\ UNCHANGED resp
            ELSE /\ rpc' = [rpc EXCEPT ![r] = "panicked"]
                 /\ UNCHANGED <<token, not_exists, resp>>
       ELSE /\ rpc' = [rpc EXCEPT ![r] = "responded"]
            /\ resp' = [resp EXCEPT ![r] = 500]
            /\ UNCHANGED <<token, not_exists>>

\* The provider issues a fresh access token at every exchange.
IssuedTo(r) == "tok" \o ToString(r)

\* handle_request: a request reaches the running server. GET /auth/callback
\* runs auth_callback, taken here at the moment the provider answers (the
\* listener never stops and the handler has touched nothing before, so the
\* wait for the provider changes nothing); everything else is answered at
\* once with Response::new(Body::from("Not Found")), whose status is 200.
HandleRequest(r) ==
    /\ listening
    /\ rpc[r] = "idle"
    /\ InOrder(rpc, r)
    /\ \E method \in Methods, path \in Paths :
        /\ route' = [route EXCEPT ![r] = RouteKind(method, path)]
        /\ IF is_callback_route(method, path)
           THEN /\ \E response \in ProviderResponses :
                     /\ response.access_token = IssuedTo(r)
                     /\ auth_callback_exchange(r, response)
           ELSE /\ rpc' = [rpc EXCEPT ![r] = "responded"]
                /\ resp' = [resp EXCEPT ![r] = 200]
                /\ UNCHANGED <<outcome, token, not_exists>>
    /\ UNCHANGED <<now, store, listening, chanVars, callerVars,
                   wrote, pushed, sendClosed>>

\* update_credentials, second statement: insert or update. An Err (storage
\* error, or the insert rejected) panics the handler through unwrap().
UpdateCredentialsWrite(r) ==
    /\ rpc[r] = "update_write"
    /\ \E fault \in BOOLEAN :
        LET res == update_credentials_write(store, not_exists[r], token[r]) IN
        IF fault \/ ~res.ok
        THEN /\ rpc' = [rpc EXCEPT ![r] = "panicked"]
             /\ token' = [token EXCEPT ![r] = NoToken]
             /\ not_exists' = [not_exists EXCEPT ![r] = FALSE]
             /\ UNCHANGED <<store, wrote>>
        ELSE /\ store' = res.rows
             /\ wrote' = [wrote EXCEPT ![r] = TRUE]
             /\ rpc' = [rpc EXCEPT ![r] = "send"]
             /\ not_exists' = [not_exists EXCEPT ![r] = FALSE]
             /\ UNCHANGED token
    /\ UNCHANGED <<now, listening, chanVars, callerVars, route, outcome,
                   pushed, sendClosed, resp>>

\* tx.send(token).await.expect(..) and the 200 response after it. send waits
\* while the buffer is full and fails once the receiver is dropped; either way
\* `token` is gone from the handler (moved into the channel or dropped).
Send(r) ==
    /\ rpc[r] = "send"
    /\ IF ~rxAlive
       THEN /\ sendClosed' = [sendClosed EXCEPT ![r] = TRUE]
            /\ rpc' = [rpc EXCEPT ![r] = "panicked"]
            /\ token' = [token EXCEPT ![r] = NoToken]
            /\ UNCHANGED <<chan, pushed, resp>>
       ELSE /\ Len(chan) < 1
            /\ chan' = Append(chan, token[r])
            /\ pushed' = [pushed EXCEPT ![r] = TRUE]
            /\ rpc' = [rpc EXCEPT ![r] = "responded"]
            /\ resp' = [resp EXCEPT ![r] = 200]
            /\ token' = [token EXCEPT ![r] = NoToken]
            /\ UNCHANGED sendClosed
    /\ UNCHANGED <<now, store, listening, rxOwner, rxAlive, callerVars, route,
                   outcome, not_exists, wrote>>

Next ==
    \/ Tick
    \/ \E c \in Callers : StartServer(c)
    \/ \E c \in Callers : GetToken(c)
    \/ \E c \in Callers : Recv(c)
    \/ \E c \in Callers : Return(c)
    \/ \E r \in Reqs : HandleRequest(r)
    \/ \E r \in Reqs : UpdateCredentialsWrite(r)
    \/ \E r \in Reqs : Send(r)

Spec == Init /\ [][Next]_vars

\* The tokio runtime runs every task that is ready: a caller whose recv() has a
\* token resumes and returns, a handler whose provider call has answered runs to its end,
\* and the clock advances. Nothing obliges a browser to send a request or a
\* caller to call.
FairSpec ==
    /\ Spec
    /\ WF_vars(Tick)
    /\ \A c \in Callers : WF_vars(Recv(c)) /\ WF_vars(Return(c))
    /\ \A r \in Reqs : /\ WF_vars(UpdateCredentialsWrite(r))
                        /\ WF_vars(Send(r))

\* ------------------------------------------------------------------ claims
\* store.load() as the coordinator would see it: the token get_token builds
\* from the first row, NoToken when there is none.
Load(rows) ==
    IF first(rows, FALSE).ok THEN get_token_value(first(rows, FALSE).value)
    ELSE NoToken

CallsGetToken(c) == cpc[c] = "idle" /\ cop'[c] = "get_token"
Receives(c) == cpc[c] = "waiting" /\ cpc'[c] = "received"

\* C1: in every interleaving the store write of a token comes before its push
\* onto the channel, and at the step in which the coordinator receives a token
\* the store loads as that same token.
C1_StoredBeforePushedAndLoadedAtReceive ==
    [][/\ \A r \in Reqs : pushed'[r] => wrote'[r]
       /\ \A c \in Callers : Receives(c) => Load(store') = result'[c]]_vars

\* C2: get_token, called while the store holds a credential whose expiry is
\* strictly in the past, does not return it but goes on to start_server.
C2_ExpiredNotReturned ==
    [][\A c \in Callers :
         (CallsGetToken(c) /\ store # <<>> /\ store[1].expires_at < now)
            => cpc'[c] # "returned"]_vars

\* C3: get_token, reading a stored credential whose expiry is strictly in the
\* future, returns the token built from that row, starts no server, runs no
\* exchange and writes nothing to the store.
C3_ValidReturnedWithoutServer ==
    [][\A c \in Callers :
         (CallsGetToken(c) /\ credentials'[c].ok /\ store # <<>>
            /\ store[1].expires_at > now)
            => /\ cpc'[c] = "returned"
               /\ result'[c] = TwitchToken(store[1].access_token,
                                           store[1].expires_at,
                                           store[1].refresh_token)
               /\ UNCHANGED <<store, listening, chanVars, reqVars>>]_vars

C3_Witness ==
    \E c \in Callers :
        /\ cop[c] = "get_token"
        /\ cpc[c] = "returned"
        /\ credentials[c].ok
        /\ credentials[c].value.expires_at > now
        /\ result[c].access_token = credentials[c].value.access_token
        /\ ~listening

\* C4: every call of start_server that has begun to wait eventually returns,
\* with a token or with a timeout error, also when no callback request comes
\* and when every callback request ends in an exchange failure.
C4_StartServerReturns ==
    \A c \in Callers :
        (cpc[c] = "waiting") ~> (cpc[c] \in {"returned", "timed_out"})

WriteSucceeds(r) == rpc[r] = "update_write" /\ wrote'[r]

C6_AtMostOnePush ==
    /\ Cardinality({r \in Reqs : pushed[r]}) <= 1
    /\ \A r \in Reqs : ~sendClosed[r]

ExchangeFailed(kind) == kind \in {"transport", "non2xx"}

\* C7: a callback request whose exchange fails (non-2xx answer, or the request
\* could not be sent) is answered 500, pushes nothing, writes nothing, and its
\* handler leaves store and channel as they were.
C7_FailedExchange ==
    /\ [](\A r \in Reqs :
            ExchangeFailed(outcome[r])
               => /\ rpc[r] = "responded"
                  /\ resp[r] = 500
                  /\ ~wrote[r]
                  /\ ~pushed[r])
    /\ [][\A r \in Reqs :
            (rpc[r] = "idle" /\ ExchangeFailed(outcome'[r]))
               => UNCHANGED <<store, chanVars>>]_vars

C7_Witness ==
    \E r \in Reqs :
        /\ outcome[r] = "non2xx"
        /\ resp[r] = 500
        /\ rxOwner # 0
        /\ cpc[rxOwner] = "waiting"
        /\ chan = <<>>

OnlyCompleteExchange(r) ==
    /\ outcome[r] = "complete"
    /\ \A q \in Reqs \ {r} : outcome[q] # "complete"

Finished(r) == rpc[r] \in {"responded", "panicked"}

\* The token that went through the handoff channel: buffered, or already in
\* the coordinator's hands.
Delivered == IF chan # <<>> THEN chan[1] ELSE result[rxOwner]

StoreWriteFailed(r) ==
    /\ outcome[r] = "complete"
    /\ rpc[r] # "update_write"
    /\ ~wrote[r]

\* C9: when update_credentials fails after a successful exchange while the
\* coordinator waits, the handler still goes on to push the token.
C9_StoreFailureStillDelivers ==
    \A r \in Reqs :
        (StoreWriteFailed(r) /\ cpc[rxOwner] = "waiting")
           => rpc[r] = "send" \/ pushed[r]

\* C10: a storage failure of get_token's read is returned to the caller as an
\* error; it does not send the caller into start_server as a missing
\* credential does.
C10_StorageErrorSurfaced ==
    \A c \in Callers :
        credentials[c].err = "StorageError" => cpc[c] = "failed"

\* C11: a 2xx answer without access_token ends the exchange in an error: the
\* browser gets the failure page, nothing is pushed and update_credentials is
\* not called.
C11_MissingAccessTokenIsFailure ==
    \A r \in Reqs :
        outcome[r] = "no_access_token"
           => resp[r] = 500 /\ ~pushed[r] /\ ~wrote[r]

Exchanges(r) == rpc[r] = "idle" /\ outcome'[r] # None

\* C12: every 2xx answer that carries access_token yields a token with that
\* access token, with or without refresh_token and expires_in; when expires_in
\* is there the expiry is now + expires_in.
C12_TokenFromAnyAnswerWithAccessToken ==
    [][\A r \in Reqs :
         /\ (Exchanges(r) /\ outcome'[r] = "optional_missing")
               => /\ rpc'[r] = "update_write"
                  /\ token'[r].access_token = IssuedTo(r)
         /\ (Exchanges(r) /\ outcome'[r] = "complete"
                /\ rpc'[r] = "update_write")
               => /\ token'[r].access_token = IssuedTo(r)
                  /\ token'[r].expires_at - now \in ExpiresInValues]_vars

\* ---- update_credentials and the read of get_token, called one after the
\* other by a single task (caller 1): cpc[1] tells the last call made,
\* token[1] the token last saved, result[1] the token last loaded; the clock
\* runs in between.
\* update_credentials as one uninterrupted call: existence test, then insert
\* or update.
update_credentials(rows, tok) ==
    update_credentials_write(rows, not_exists_of(rows), tok)

SavedTokens ==
    {TwitchToken(at, e, rt) :
        at \in AccessTokens, e \in 0..(MaxTime + 1), rt \in RefreshTokens}

Save(tok) ==
    LET res == update_credentials(store, tok) IN
    /\ store' = res.rows
    /\ token' = [token EXCEPT ![1] = tok]
    /\ cpc' = [cpc EXCEPT ![1] = IF res.ok THEN "saved" ELSE "save_failed"]
    /\ UNCHANGED <<now, listening, chanVars, cop, credentials, result, rpc,
                   route, outcome, not_exists, wrote, pushed, sendClosed, resp>>

LoadSaved ==
    /\ result' = [result EXCEPT ![1] = Load(store)]
    /\ cpc' = [cpc EXCEPT ![1] = "loaded"]
    /\ UNCHANGED <<now, store, listening, chanVars, cop, credentials, reqVars>>

SaveLoadNext ==
    \/ Tick
    \/ \E tok \in SavedTokens : Save(tok)
    \/ LoadSaved

SaveLoadSpec == Init /\ [][SaveLoadNext]_vars

CallsStartServer(c) == cpc[c] = "idle" /\ cpc'[c] \in {"waiting", "panicked"}

\* C14: at most one start_server call waits for its token at a time; a call
\* made while another one waits is turned away (Server::bind panics on the
\* taken port) and opens no listener and no channel of its own.
C14_OneCycleAtATime ==
    /\ [](Cardinality({c \in Callers : cpc[c] \in {"waiting", "received"}}) <= 1)
    /\ [][\A c \in Callers :
            (CallsStartServer(c) /\ \E d \in Callers : cpc[d] = "waiting")
               => /\ cpc'[c] = "panicked"
                  /\ UNCHANGED <<listening, chanVars>>]_vars

C14_Witness ==
    \E c, d \in Callers :
        /\ cpc[c] = "waiting"
        /\ rxOwner = c
        /\ cpc[d] = "panicked"
        /\ listening

Terminal(q) == ExchangeFailed(outcome[q]) \/ pushed[q]

\* C15: once a callback request of the cycle has ended in an exchange failure
\* or in a delivered token, no later callback request runs an exchange.
C15_TerminalOutcome ==
    [][\A r \in Reqs :
         (rpc[r] = "idle" /\ route'[r] = "callback"
            /\ \E q \in Reqs : Terminal(q))
            => outcome'[r] = None]_vars

\* C16: a request that is neither the initiate route nor GET /auth/callback is
\* answered 404.
C16_UnknownRoute404 ==
    \A r \in Reqs :
        (route[r] = "other" /\ rpc[r] = "responded") => resp[r] = 404

\* C17: the existence test and the insert or update of update_credentials are
\* one atomic step with respect to every other call: no two calls are between
\* their test and their write at once (so no two of them have both seen
\* 'no row').
C17_WritesSerialized ==
    \A r, q \in Reqs :
        r # q => ~(rpc[r] = "update_write" /\ rpc[q] = "update_write")

\* C18: a callback request whose handler has ended has been answered, with the
\* 200 page or the 500 page.
C18_DefinitiveResponse ==
    \A r \in Reqs :
        (route[r] = "callback" /\ Finished(r)) => resp[r] \in {200, 500}

\* C19: expires_in is None exactly when expires_at is not later than now, and
\* otherwise the Duration of the time remaining, expires_at - now.
C19_ExpiresInRemaining ==
    \A c \in Callers :
        cpc[c] = "returned"
           => LET d == expires_in(result[c], now) IN
              /\ d.some <=> result[c].expires_at > now
              /\ d.some => d.secs = result[c].expires_at - now /\ d.nanos = 0

\* C20: once start_server has returned its token the listener is gone: the
\* port is free again and no request is handled any more.
C20_ListenerStoppedAfterReturn ==
    /\ [](rxOwner # 0 /\ cpc[rxOwner] = "returned" => ~listening)
    /\ [][\A r \in Reqs :
            (rpc[r] = "idle" /\ rpc'[r] # "idle")
               => cpc[rxOwner] # "returned"]_vars

====
